---- MODULE Spec2Model ----
(***************************************************************************)
(* SafetyRules (consensus/safety-rules/src/safety_rules.rs): the voting    *)
(* rules, the epoch transition and the persistent safety storage they      *)
(* read and write.  Every access to the persistent storage is one step, so *)
(* that a failed access or a crash can fall between any two of them.       *)
(***************************************************************************)
EXTENDS Integers, Sequences, FiniteSets, TLC

\* ---------------------------------------------------------------- bounds
MaxEpoch == 2
MaxRound == 2
MaxProofLen == 2
NumBlocks == 2
\* the width of a round in bits, 64 in the program
RoundBits == 2

\* ------------------------------------------------------ program constants
\* validator_verifier: None
NoVerifier == 0
\* LedgerInfo::next_epoch_state() == None
NoEpoch == 0
\* the epoch and the rounds of a freshly provisioned storage
InitEpoch == 1
InitRound == 0

Epochs == 1..MaxEpoch
Rounds == 0..MaxRound
BlockIds == 1..NumBlocks

Max(a, b) == IF a >= b THEN a ELSE b

\* ------------------------------------------------------------- messages
\* A LedgerInfo (with signatures): the epoch of the block it commits and the
\* epoch of its next_epoch_state (NoEpoch when it does not end the epoch).
\* It is signed by the validator set of its own epoch, which ends an epoch
\* only into the next one.
LedgerInfos ==
    {li \in [epoch : 0..(MaxEpoch - 1), next : {NoEpoch} \cup Epochs] :
        li.next \in {NoEpoch, li.epoch + 1}}

GenesisLedgerInfo == [epoch |-> 0, next |-> InitEpoch]

\* Waypoint::new_epoch_boundary: the commitment to an epoch-ending LedgerInfo
NewEpochBoundary(li) == [epoch |-> li.epoch, value |-> li]

\* the verifier of an epoch state is the validator set of that epoch
EpochStateVerifier(li) == li.next

\* EpochChangeProof: a non-empty sequence of LedgerInfos
RECURSIVE SeqsUpTo(_, _)
SeqsUpTo(S, n) ==
    IF n = 0 THEN {<<>>}
    ELSE LET shorter == SeqsUpTo(S, n - 1)
         IN  shorter \cup {Append(s, x) : s \in {t \in shorter : Len(t) = n - 1}, x \in S}

Proofs == SeqsUpTo(LedgerInfos, MaxProofLen) \ {<<>>}

\* the LedgerInfos and the proofs that reach one epoch further, into the
\* epoch after MaxEpoch
LaterLedgerInfos ==
    {li \in [epoch : 0..MaxEpoch, next : {NoEpoch} \cup 1..(MaxEpoch + 1)] :
        li.next \in {NoEpoch, li.epoch + 1}}

LaterProofs == SeqsUpTo(LaterLedgerInfos, MaxProofLen) \ {<<>>}

\* EpochChangeProof::verify(waypoint): the first LedgerInfo matches the
\* waypoint, every other one is signed by the validator set its predecessor
\* carries, and all but the last end their epoch.
ProofVerify(proof, waypoint) ==
    /\ Len(proof) >= 1
    /\ NewEpochBoundary(proof[1]) = waypoint
    /\ \A i \in 1..(Len(proof) - 1) :
          /\ proof[i].next # NoEpoch
          /\ proof[i + 1].epoch = proof[i].next

\* A QuorumCert: the epoch of its blocks, the round of its parent block, the
\* validator set whose quorum signed it and the next_epoch_state of its
\* ledger info (NoEpoch when the QC does not end the epoch).
QuorumCerts ==
    [epoch : Epochs, parent_round : Rounds, signers : Epochs, next : {NoEpoch} \cup Epochs]

\* QuorumCert::verify(validator_verifier)
QcVerify(qc, verifier) == qc.signers = verifier

\* QuorumCert::ends_epoch
EndsEpoch(qc) == qc.next # NoEpoch

\* qc.ledger_info().ledger_info()
QcLedgerInfo(qc) == [epoch |-> qc.epoch, next |-> qc.next]

\* A VoteProposal: the proposed block (epoch, round, id), the certified and
\* parent rounds of its quorum cert, and whether the accumulator extension
\* proof verifies.  Rounds grow along the chain parent, certified, proposed;
\* only the genesis block has round 0.
Extends(round, parent) == parent < round \/ (parent = 0 /\ round = 0)

VoteProposals ==
    {vp \in [epoch : Epochs, round : Rounds, id : BlockIds,
             certified_round : Rounds, parent_round : Rounds, proof_ok : BOOLEAN] :
        /\ Extends(vp.round, vp.certified_round)
        /\ Extends(vp.certified_round, vp.parent_round)}

Timeouts == [epoch : Epochs, round : Rounds]

\* every value of a round, up to the greatest one of the width
RoundValues == 0..(2 ^ RoundBits - 1)

\* the rounds of a proposed block as construct_ledger_info reads them, with
\* no relation between them assumed
Blocks == [round : RoundValues, certified_round : RoundValues, parent_round : RoundValues]

\* ----------------------------------------------------------------- state
VARIABLES
    store,               \* persistent_storage: epoch, rounds, waypoint
    validator_verifier,  \* Option<ValidatorVerifier>
    pc,                  \* position of the running operation, "idle" if none
    call,                \* the running (or last) operation and its argument
    result,              \* what the last operation returned
    entry,               \* the storage and the histories as the operation began
    writes,              \* the storage writes of the operation, in order
    max_persisted,       \* per epoch: highest last_voted_round persisted
    last_vote,           \* the vote returned most recently
    last_init,           \* the initialize that succeeded most recently
    crashed,             \* the initialize a crash interrupted inside its epoch transition
    last_timeout,        \* the timeout signed most recently
    observed             \* which of the five histories above is being recorded

vars == <<store, validator_verifier, pc, call, result, entry, writes,
          max_persisted, last_vote, last_init, crashed, last_timeout, observed>>

NoCall == [op |-> "none", arg |-> <<>>]
NoVote == [epoch |-> 0, round |-> 0, id |-> 0]
NoInit == [proof |-> <<>>, verifier |-> NoVerifier]
NoCrash == [proof |-> <<>>, pc |-> "idle", epoch |-> 0, rerun |-> FALSE]
NoTimeout == [timeout |-> [epoch |-> 0, round |-> 0], signature |-> <<>>, store |-> <<>>]
Pending == [tag |-> "Pending", val |-> <<>>]

\* what an operation finds when it begins
Snapshot ==
    [store |-> store, verifier |-> validator_verifier,
     max_persisted |-> max_persisted, last_vote |-> last_vote,
     last_init |-> last_init, last_timeout |-> last_timeout]

\* SafetyRules::new over a provisioned storage, with `history` recorded
InitObserving(history) ==
    /\ store = [epoch |-> InitEpoch, last_voted_round |-> InitRound,
                preferred_round |-> InitRound,
                waypoint |-> NewEpochBoundary(GenesisLedgerInfo)]
    /\ validator_verifier = NoVerifier
    /\ pc = "idle"
    /\ call = NoCall
    /\ result = [tag |-> "None", val |-> <<>>]
    /\ writes = <<>>
    /\ max_persisted = [e \in Epochs |-> IF e = InitEpoch THEN InitRound ELSE -1]
    /\ last_vote = NoVote
    /\ last_init = NoInit
    /\ crashed = NoCrash
    /\ last_timeout = NoTimeout
    /\ observed = history
    /\ entry = Snapshot

Init == InitObserving("none")
InitRounds == InitObserving("rounds")
InitVotes == InitObserving("votes")
InitInitialize == InitObserving("initialize")
InitCrash == InitObserving("crash")
InitTimeouts == InitObserving("timeouts")

\* the history of persisted rounds follows every write to the storage
Persisted(s) ==
    IF observed = "rounds"
    THEN [max_persisted EXCEPT ![s.epoch] = Max(@, s.last_voted_round)]
    ELSE max_persisted

\* a write to one record of the storage
Write(key, value) ==
    /\ store' = [store EXCEPT ![key] = value]
    /\ writes' = Append(writes, <<key, value>>)
    /\ max_persisted' = Persisted([store EXCEPT ![key] = value])

NoWrite == UNCHANGED <<store, writes, max_persisted>>

\* the operation returns
Return(tag, val) ==
    /\ pc' = "returned"
    /\ result' = [tag |-> tag, val |-> val]

Goto(label) ==
    /\ pc' = label
    /\ UNCHANGED result

\* an operation is called
Begin(op, arg, label) ==
    /\ pc = "idle"
    /\ pc' = label
    /\ call' = [op |-> op, arg |-> arg]
    /\ result' = Pending
    /\ entry' = Snapshot
    /\ writes' = <<>>
    /\ crashed' = IF crashed # NoCrash /\ ~crashed.rerun
                  THEN [crashed EXCEPT !.rerun = TRUE]
                  ELSE NoCrash
    /\ UNCHANGED <<store, validator_verifier, max_persisted, last_vote, last_init, last_timeout, observed>>

\* the LedgerInfo start_new_epoch is called with
LedgerInfoOf(c) ==
    IF c.op = "initialize" THEN c.arg[Len(c.arg)] ELSE QcLedgerInfo(c.arg)

\* --------------------------------------------------------- initialize
CallInitialize(proof) == Begin("initialize", proof, "initialize")

Initialize ==
    /\ pc = "initialize"
    /\ IF ProofVerify(call.arg, store.waypoint)
       THEN Goto("start_new_epoch")
       ELSE Return("WaypointMismatch", <<>>)
    /\ NoWrite
    /\ UNCHANGED <<validator_verifier, call, entry, last_vote, last_init, crashed, last_timeout, observed>>

\* ----------------------------------------------------- start_new_epoch
ReturnsOk ==
    /\ Return("Ok", <<>>)
    /\ last_init' = IF call.op = "initialize" /\ observed = "initialize"
                    THEN [proof |-> call.arg, verifier |-> validator_verifier]
                    ELSE last_init

StartNewEpoch ==
    /\ pc = "start_new_epoch"
    /\ LET ledger_info == LedgerInfoOf(call) IN
       IF ledger_info.next = NoEpoch
       THEN /\ Return("InvalidLedgerInfo", <<>>)
            /\ UNCHANGED validator_verifier
       ELSE /\ validator_verifier' = EpochStateVerifier(ledger_info)
            /\ Goto("current_epoch")
    /\ NoWrite
    /\ UNCHANGED <<call, entry, last_vote, last_init, crashed, last_timeout, observed>>

\* the guard with `!=` for `<`
NewerEpochAny(current_epoch, epoch) == current_epoch # epoch

\* the guard with `<=` for `<`
NewerEpochOrSame(current_epoch, epoch) == current_epoch <= epoch

\* the guard of the epoch transition
NewerEpoch(current_epoch, epoch) == current_epoch < epoch

\* the transition with set_epoch as its first write
CurrentEpochFirst ==
    /\ pc = "current_epoch"
    /\ IF NewerEpoch(store.epoch, LedgerInfoOf(call).next)
       THEN Goto("set_epoch") /\ UNCHANGED last_init
       ELSE ReturnsOk
    /\ NoWrite
    /\ UNCHANGED <<validator_verifier, call, entry, last_vote, crashed, last_timeout, observed>>

CurrentEpoch ==
    /\ pc = "current_epoch"
    /\ IF NewerEpoch(store.epoch, LedgerInfoOf(call).next)
       THEN Goto("set_waypoint") /\ UNCHANGED last_init
       ELSE ReturnsOk
    /\ NoWrite
    /\ UNCHANGED <<validator_verifier, call, entry, last_vote, crashed, last_timeout, observed>>

SetWaypoint ==
    /\ pc = "set_waypoint"
    /\ Write("waypoint", NewEpochBoundary(LedgerInfoOf(call)))
    /\ Goto("reset_last_voted_round")
    /\ UNCHANGED <<validator_verifier, call, entry, last_vote, last_init, crashed, last_timeout, observed>>

ResetLastVotedRound ==
    /\ pc = "reset_last_voted_round"
    /\ Write("last_voted_round", 0)
    /\ Goto("reset_preferred_round")
    /\ UNCHANGED <<validator_verifier, call, entry, last_vote, last_init, crashed, last_timeout, observed>>

ResetPreferredRound ==
    /\ pc = "reset_preferred_round"
    /\ Write("preferred_round", 0)
    /\ Goto("set_epoch")
    /\ UNCHANGED <<validator_verifier, call, entry, last_vote, last_init, crashed, last_timeout, observed>>

SetEpoch ==
    /\ pc = "set_epoch"
    /\ Write("epoch", LedgerInfoOf(call).next)
    /\ ReturnsOk
    /\ UNCHANGED <<validator_verifier, call, entry, last_vote, crashed, last_timeout, observed>>

\* ---------------------------------------------------- verify_qc, update
CallUpdate(qc) == Begin("update", qc, "verify_qc")

\* verify_qc without qc.verify
VerifyQcUnverified ==
    /\ pc = "verify_qc"
    /\ IF validator_verifier = NoVerifier
       THEN Return("NotInitialized", <<>>)
       ELSE Goto("verify_qc_round")
    /\ NoWrite
    /\ UNCHANGED <<validator_verifier, call, entry, last_vote, last_init, crashed, last_timeout, observed>>

VerifyQc ==
    /\ pc = "verify_qc"
    /\ IF validator_verifier = NoVerifier
       THEN Return("NotInitialized", <<>>)
       ELSE IF ~QcVerify(call.arg, validator_verifier)
       THEN Return("InvalidQuorumCertificate", <<"signatures">>)
       ELSE Goto("verify_qc_round")
    /\ NoWrite
    /\ UNCHANGED <<validator_verifier, call, entry, last_vote, last_init, crashed, last_timeout, observed>>

\* verify_qc without its preferred-round rule
TooEarlyNever(parent_round, preferred_round) == FALSE

\* the preferred-round rule of verify_qc
TooEarly(parent_round, preferred_round) == parent_round < preferred_round

VerifyQcRound ==
    /\ pc = "verify_qc_round"
    /\ IF TooEarly(call.arg.parent_round, store.preferred_round)
       THEN Return("InvalidQuorumCertificate", <<"Preferred round too early">>)
       ELSE IF EndsEpoch(call.arg)
       THEN Goto("start_new_epoch")
       ELSE Goto("set_preferred_round")
    /\ NoWrite
    /\ UNCHANGED <<validator_verifier, call, entry, last_vote, last_init, crashed, last_timeout, observed>>

SetPreferredRound ==
    /\ pc = "set_preferred_round"
    /\ Write("preferred_round", call.arg.parent_round)
    /\ Return("Ok", <<>>)
    /\ UNCHANGED <<validator_verifier, call, entry, last_vote, last_init, crashed, last_timeout, observed>>

\* ------------------------------------------- construct_and_sign_vote
\* verify_epoch accepting every epoch
EpochMatchesAny(epoch, expected_epoch) == TRUE

\* verify_epoch
EpochMatches(epoch, expected_epoch) == epoch = expected_epoch

\* `round + 1` on unsigned rounds, as a build without overflow checks
\* computes it
PlusOne(round) == (round + 1) % (2 ^ RoundBits)

\* `round + 1` panics in a build with overflow checks
PlusOneOverflows(round) == round + 1 >= 2 ^ RoundBits

\* construct_ledger_info: the round the vote's ledger info commits, -1 for
\* the LedgerInfo over the empty BlockInfo
ConstructLedgerInfo(block) ==
    IF PlusOne(block.parent_round) = block.certified_round
       /\ PlusOne(block.certified_round) = block.round
    THEN block.parent_round
    ELSE -1

\* the additions construct_ledger_info evaluates, `&&` skipping the second
\* when the first comparison fails
ConstructLedgerInfoOverflows(block) ==
    \/ PlusOneOverflows(block.parent_round)
    \/ /\ PlusOne(block.parent_round) = block.certified_round
       /\ PlusOneOverflows(block.certified_round)

\* construct_ledger_info called on its own: it returns the ledger info, or
\* panics where the build checks the overflow it runs into
ConstructLedgerInfoCall ==
    /\ pc = "construct_ledger_info"
    /\ \/ Return("Ok", <<ConstructLedgerInfo(call.arg)>>)
       \/ /\ ConstructLedgerInfoOverflows(call.arg)
          /\ Return("Panic", <<>>)
    /\ NoWrite
    /\ UNCHANGED <<validator_verifier, call, entry, last_vote, last_init, crashed, last_timeout, observed>>

CallVote(vp) == Begin("construct_and_sign_vote", vp, "vote_verify_epoch")

VoteVerifyEpoch ==
    /\ pc = "vote_verify_epoch"
    /\ IF EpochMatches(call.arg.epoch, store.epoch)
       THEN Goto("vote_last_voted_round")
       ELSE Return("IncorrectEpoch", <<call.arg.epoch, store.epoch>>)
    /\ NoWrite
    /\ UNCHANGED <<validator_verifier, call, entry, last_vote, last_init, crashed, last_timeout, observed>>

\* the increasing-round rule
IsOldProposal(round, last_voted_round) == round <= last_voted_round

VoteLastVotedRound ==
    /\ pc = "vote_last_voted_round"
    /\ IF IsOldProposal(call.arg.round, store.last_voted_round)
       THEN Goto("vote_old_proposal")
       ELSE Goto("vote_preferred_round")
    /\ NoWrite
    /\ UNCHANGED <<validator_verifier, call, entry, last_vote, last_init, crashed, last_timeout, observed>>

VoteOldProposal ==
    /\ pc = "vote_old_proposal"
    /\ Return("OldProposal", <<call.arg.round, store.last_voted_round>>)
    /\ NoWrite
    /\ UNCHANGED <<validator_verifier, call, entry, last_vote, last_init, crashed, last_timeout, observed>>

\* construct_and_sign_vote without its preferred-round rule
BelowPreferredNever(certified_round, preferred_round) == FALSE

\* the preferred-round rule
BelowPreferred(certified_round, preferred_round) == certified_round < preferred_round

VotePreferredRound ==
    /\ pc = "vote_preferred_round"
    /\ IF BelowPreferred(call.arg.certified_round, store.preferred_round)
       THEN Return("ProposalRoundLowerThenPreferredBlock", <<store.preferred_round>>)
       ELSE IF ~call.arg.proof_ok
       THEN Return("InvalidAccumulatorExtension", <<>>)
       ELSE Goto("vote_set_last_voted_round")
    /\ NoWrite
    /\ UNCHANGED <<validator_verifier, call, entry, last_vote, last_init, crashed, last_timeout, observed>>

\* the vote signed without the write of last_voted_round
VoteSetLastVotedRoundSkipped ==
    /\ pc = "vote_set_last_voted_round"
    /\ NoWrite
    /\ Goto("vote_sign")
    /\ UNCHANGED <<validator_verifier, call, entry, last_vote, last_init, crashed, last_timeout, observed>>

VoteSetLastVotedRound ==
    /\ pc = "vote_set_last_voted_round"
    /\ Write("last_voted_round", call.arg.round)
    /\ Goto("vote_sign")
    /\ UNCHANGED <<validator_verifier, call, entry, last_vote, last_init, crashed, last_timeout, observed>>

\* Vote::new: the proposed block, signed
NewVote(block) == [epoch |-> block.epoch, round |-> block.round, id |-> block.id]

VoteSign ==
    /\ pc = "vote_sign"
    /\ Return("Ok", <<call.arg.epoch, call.arg.round, call.arg.id,
                      ConstructLedgerInfo(call.arg)>>)
    /\ last_vote' = IF observed = "votes" THEN NewVote(call.arg) ELSE last_vote
    /\ NoWrite
    /\ UNCHANGED <<validator_verifier, call, entry, last_init, crashed, last_timeout, observed>>

\* ------------------------------------------------------- sign_timeout
CallTimeout(timeout) == Begin("sign_timeout", timeout, "timeout_verify_epoch")

TimeoutVerifyEpoch ==
    /\ pc = "timeout_verify_epoch"
    /\ IF EpochMatches(call.arg.epoch, store.epoch)
       THEN Goto("timeout_preferred_round")
       ELSE Return("IncorrectEpoch", <<call.arg.epoch, store.epoch>>)
    /\ NoWrite
    /\ UNCHANGED <<validator_verifier, call, entry, last_vote, last_init, crashed, last_timeout, observed>>

\* the preferred-round rule of sign_timeout with `<` for `<=`
TimeoutPreferredRoundStrict ==
    /\ pc = "timeout_preferred_round"
    /\ IF call.arg.round < store.preferred_round
       THEN Return("BadTimeoutPreferredRound", <<call.arg.round, store.preferred_round>>)
       ELSE Goto("timeout_last_voted_round")
    /\ NoWrite
    /\ UNCHANGED <<validator_verifier, call, entry, last_vote, last_init, crashed, last_timeout, observed>>

TimeoutPreferredRound ==
    /\ pc = "timeout_preferred_round"
    /\ IF call.arg.round <= store.preferred_round
       THEN Return("BadTimeoutPreferredRound", <<call.arg.round, store.preferred_round>>)
       ELSE Goto("timeout_last_voted_round")
    /\ NoWrite
    /\ UNCHANGED <<validator_verifier, call, entry, last_vote, last_init, crashed, last_timeout, observed>>

\* sign_timeout without the BadTimeoutLastVotedRound check
TimeoutBranchUnchecked(round, last_voted_round) ==
    IF round # last_voted_round THEN "timeout_set_last_voted_round"
    ELSE "timeout_sign"

\* sign_timeout writing the round also when it is the stored one
TimeoutBranchRewrites(round, last_voted_round) ==
    IF round < last_voted_round THEN "reject"
    ELSE "timeout_set_last_voted_round"

\* where sign_timeout goes once it has read last_voted_round
TimeoutBranch(round, last_voted_round) ==
    IF round < last_voted_round THEN "reject"
    ELSE IF round > last_voted_round THEN "timeout_set_last_voted_round"
    ELSE "timeout_sign"

TimeoutLastVotedRound ==
    /\ pc = "timeout_last_voted_round"
    /\ LET branch == TimeoutBranch(call.arg.round, store.last_voted_round) IN
       IF branch = "reject"
       THEN Return("BadTimeoutLastVotedRound", <<call.arg.round, store.last_voted_round>>)
       ELSE Goto(branch)
    /\ NoWrite
    /\ UNCHANGED <<validator_verifier, call, entry, last_vote, last_init, crashed, last_timeout, observed>>

TimeoutSetLastVotedRound ==
    /\ pc = "timeout_set_last_voted_round"
    /\ Write("last_voted_round", call.arg.round)
    /\ Goto("timeout_sign")
    /\ UNCHANGED <<validator_verifier, call, entry, last_vote, last_init, crashed, last_timeout, observed>>

\* timeout.sign(&self.validator_signer): the signature over (epoch, round)
Sign(timeout) == <<timeout.epoch, timeout.round>>

TimeoutSign ==
    /\ pc = "timeout_sign"
    /\ Return("Ok", Sign(call.arg))
    /\ last_timeout' = IF observed = "timeouts"
                       THEN [timeout |-> call.arg, signature |-> Sign(call.arg),
                             store |-> store]
                       ELSE last_timeout
    /\ NoWrite
    /\ UNCHANGED <<validator_verifier, call, entry, last_vote, last_init, crashed, observed>>

\* -------------------------------------------------------------- faults
\* the positions that read or write the persistent storage
StorageAccess ==
    {"initialize", "current_epoch", "set_waypoint", "reset_last_voted_round",
     "reset_preferred_round", "set_epoch", "verify_qc_round", "set_preferred_round",
     "vote_verify_epoch", "vote_last_voted_round", "vote_old_proposal",
     "vote_preferred_round", "vote_set_last_voted_round",
     "timeout_verify_epoch", "timeout_preferred_round", "timeout_last_voted_round",
     "timeout_set_last_voted_round"}

\* the storage access fails: `?` returns the storage error to the caller
StorageError ==
    /\ pc \in StorageAccess
    /\ Return("InternalStorage", <<>>)
    /\ NoWrite
    /\ UNCHANGED <<validator_verifier, call, entry, last_vote, last_init, crashed, last_timeout, observed>>

\* the positions of start_new_epoch after set_waypoint and before set_epoch
\* has completed
MidTransition == {"reset_last_voted_round", "reset_preferred_round", "set_epoch"}

\* the process stops and is restarted over the same storage
Crash ==
    /\ pc # "returned"
    /\ pc' = "idle"
    /\ call' = NoCall
    /\ result' = [tag |-> "Crashed", val |-> <<>>]
    /\ entry' = Snapshot
    /\ writes' = <<>>
    /\ validator_verifier' = NoVerifier
    /\ crashed' = IF call.op = "initialize" /\ pc \in MidTransition /\ observed = "crash"
                  THEN [proof |-> call.arg, pc |-> pc,
                        epoch |-> entry.store.epoch, rerun |-> FALSE]
                  ELSE NoCrash
    /\ UNCHANGED <<store, max_persisted, last_vote, last_init, last_timeout, observed>>

\* the caller has taken the result
Respond ==
    /\ pc = "returned"
    /\ pc' = "idle"
    /\ call' = NoCall
    /\ result' = [tag |-> "None", val |-> <<>>]
    /\ entry' = Snapshot
    /\ writes' = <<>>
    /\ UNCHANGED <<store, validator_verifier, max_persisted, last_vote, last_init, crashed, last_timeout, observed>>

Next ==
    \/ \E proof \in Proofs : CallInitialize(proof)
    \/ Initialize
    \/ StartNewEpoch
    \/ CurrentEpoch
    \/ SetWaypoint
    \/ ResetLastVotedRound
    \/ ResetPreferredRound
    \/ SetEpoch
    \/ \E qc \in QuorumCerts : CallUpdate(qc)
    \/ VerifyQc
    \/ VerifyQcRound
    \/ SetPreferredRound
    \/ \E vp \in VoteProposals : CallVote(vp)
    \/ VoteVerifyEpoch
    \/ VoteLastVotedRound
    \/ VoteOldProposal
    \/ VotePreferredRound
    \/ VoteSetLastVotedRound
    \/ VoteSign
    \/ \E timeout \in Timeouts : CallTimeout(timeout)
    \/ TimeoutVerifyEpoch
    \/ TimeoutPreferredRound
    \/ TimeoutLastVotedRound
    \/ TimeoutSetLastVotedRound
    \/ TimeoutSign
    \/ StorageError
    \/ Crash
    \/ Respond

Spec == Init /\ [][Next]_vars

\* the same program, with one history recorded
SpecRounds == InitRounds /\ [][Next]_vars
SpecVotes == InitVotes /\ [][Next]_vars
SpecInitialize == InitInitialize /\ [][Next]_vars
SpecCrash == InitCrash /\ [][Next]_vars
SpecTimeouts == InitTimeouts /\ [][Next]_vars

\* the kernel driven by initialize alone, with the proofs that reach one
\* epoch further
NextEpochChanges ==
    \/ \E proof \in LaterProofs : CallInitialize(proof)
    \/ Initialize
    \/ StartNewEpoch
    \/ CurrentEpoch
    \/ SetWaypoint
    \/ ResetLastVotedRound
    \/ ResetPreferredRound
    \/ SetEpoch
    \/ StorageError
    \/ Crash
    \/ Respond

SpecEpochChanges == Init /\ [][NextEpochChanges]_vars

\* construct_ledger_info applied to every block
InitLedgerInfo ==
    /\ store = [epoch |-> InitEpoch, last_voted_round |-> InitRound,
                preferred_round |-> InitRound,
                waypoint |-> NewEpochBoundary(GenesisLedgerInfo)]
    /\ validator_verifier = NoVerifier
    /\ pc = "construct_ledger_info"
    /\ \E block \in Blocks : call = [op |-> "construct_ledger_info", arg |-> block]
    /\ result = Pending
    /\ writes = <<>>
    /\ max_persisted = [e \in Epochs |-> IF e = InitEpoch THEN InitRound ELSE -1]
    /\ last_vote = NoVote
    /\ last_init = NoInit
    /\ crashed = NoCrash
    /\ last_timeout = NoTimeout
    /\ observed = "none"
    /\ entry = Snapshot

NextLedgerInfo == ConstructLedgerInfoCall

SpecLedgerInfo == InitLedgerInfo /\ [][NextLedgerInfo]_vars

\* ---------------------------------------------------------------- claims
\* the operation `op` has returned
Returned(op) == pc = "returned" /\ call.op = op

Succeeded(op) == Returned(op) /\ result.tag = "Ok"

\* C1: a vote that construct_and_sign_vote returns has a round strictly
\* greater than every last_voted_round persisted before the call while the
\* stored epoch was the vote's epoch.
VoteAboveEveryPersistedRound ==
    Succeeded("construct_and_sign_vote") =>
        call.arg.round > entry.max_persisted[call.arg.epoch]

\* C2: construct_and_sign_vote returns at most one distinct vote per (epoch,
\* round): a vote with the epoch and round of the vote returned before it is
\* for the same block.
AtMostOneVotePerRound ==
    (/\ Succeeded("construct_and_sign_vote")
     /\ entry.last_vote.epoch = call.arg.epoch
     /\ entry.last_vote.round = call.arg.round)
        => entry.last_vote.id = call.arg.id

\* C3: construct_and_sign_vote signs only after last_voted_round := b.round
\* is in the storage: where the vote is signed and where it has been returned
\* the persisted round is the vote's round and the operation wrote it; an
\* operation that did not complete that write returns no vote.
PersistBeforeSign ==
    call.op = "construct_and_sign_vote" =>
        /\ (pc = "vote_sign" \/ Succeeded("construct_and_sign_vote")) =>
              /\ writes = << <<"last_voted_round", call.arg.round>> >>
              /\ store.last_voted_round = call.arg.round
        /\ (pc = "returned" /\ writes = <<>>) => result.tag # "Ok"

VoteSigned ==
    /\ Succeeded("construct_and_sign_vote")
    /\ entry.store.last_voted_round < call.arg.round
    /\ entry.store.last_voted_round > 0

\* C4: where sign_timeout signs and where it has returned a signature, the
\* persisted last_voted_round equals t.round, which was at least the round
\* persisted when the call began; the operation wrote the round exactly when
\* t.round was greater, and wrote nothing when it was equal.
TimeoutRoundPersisted ==
    (call.op = "sign_timeout" /\ (pc = "timeout_sign" \/ Succeeded("sign_timeout"))) =>
        /\ call.arg.round >= entry.store.last_voted_round
        /\ store.last_voted_round = call.arg.round
        /\ writes = IF call.arg.round > entry.store.last_voted_round
                    THEN << <<"last_voted_round", call.arg.round>> >>
                    ELSE <<>>

TimeoutSignedAbove ==
    /\ Succeeded("sign_timeout")
    /\ call.arg.round > entry.store.last_voted_round
    /\ entry.store.last_voted_round > 0

\* C5: an operation that leaves the stored epoch as it was leaves the
\* persisted last_voted_round and preferred_round at least as high as they
\* were, also when one of its storage writes failed.
RoundsMonotoneWithinEpoch ==
    (pc = "returned" /\ store.epoch = entry.store.epoch) =>
        /\ store.last_voted_round >= entry.store.last_voted_round
        /\ store.preferred_round >= entry.store.preferred_round

\* C6: no step lowers the stored epoch, and every write of the epoch record
\* stores an epoch strictly greater than the one it replaces.
EpochOnlyGrows ==
    [][/\ store'.epoch >= store.epoch
       /\ (Len(writes') > Len(writes) /\ writes'[Len(writes')][1] = "epoch")
             => store'.epoch > store.epoch]_vars

\* an update whose ledger info carries an epoch below the stored one returned
StaleEpochOffered ==
    /\ Succeeded("update")
    /\ EndsEpoch(call.arg)
    /\ call.arg.next < store.epoch

\* the writes of an epoch transition to the epoch state of `li`, in order
TransitionWrites(li) ==
    << <<"waypoint", NewEpochBoundary(li)>>, <<"last_voted_round", 0>>,
       <<"preferred_round", 0>>, <<"epoch", li.next>> >>

\* the operation runs start_new_epoch when its checks pass
StartsEpoch ==
    call.op = "initialize" \/ (call.op = "update" /\ EndsEpoch(call.arg))

\* C7: the writes of initialize and of an epoch-ending update are always a
\* prefix of waypoint, last_voted_round := 0, preferred_round := 0, epoch;
\* they are empty unless next_epoch_state.epoch is greater than the stored
\* epoch, all four were made when the operation succeeded after writing, and
\* the stored epoch has changed only where all four were made.
TransitionWriteOrder ==
    StartsEpoch =>
        LET li == LedgerInfoOf(call)
            n == Len(writes)
        IN  /\ n <= 4
            /\ n > 0 => /\ li.next > entry.store.epoch
                        /\ writes = SubSeq(TransitionWrites(li), 1, n)
            /\ (Succeeded(call.op) /\ n > 0) => n = 4
            /\ IF n = 4
               THEN /\ store.epoch = li.next
                    /\ store.waypoint = NewEpochBoundary(li)
                    /\ store.last_voted_round = 0
                    /\ store.preferred_round = 0
               ELSE store.epoch = entry.store.epoch

\* a write failed in the middle of a transition from rounds above 0
TransitionCutShort ==
    /\ StartsEpoch
    /\ pc = "returned"
    /\ result.tag = "InternalStorage"
    /\ Len(writes) = 3
    /\ entry.store.last_voted_round > 0
    /\ entry.store.preferred_round > 0

\* the ledger info whose epoch state the interrupted transition was entering
Last(proof) == proof[Len(proof)]

\* C8: after a crash inside the epoch transition of initialize, past
\* set_waypoint and before set_epoch has completed, the stored epoch is the
\* old one, and the first call after the restart, initialize with the same
\* proof, succeeds unless the storage fails and leaves the new epoch, both
\* rounds 0 and the new validator set.
RerunCompletesTransition ==
    /\ (crashed # NoCrash /\ ~crashed.rerun) => store.epoch = crashed.epoch
    /\ (/\ crashed.rerun
        /\ Returned("initialize")
        /\ call.arg = crashed.proof
        /\ result.tag # "InternalStorage")
          => /\ result.tag = "Ok"
             /\ store.epoch = Last(crashed.proof).next
             /\ store.last_voted_round = 0
             /\ store.preferred_round = 0
             /\ validator_verifier = EpochStateVerifier(Last(crashed.proof))

\* C9: an initialize with the proof of the initialize that succeeded before
\* it, if the proof still chains from the stored waypoint and the storage
\* does not fail, succeeds, writes nothing and leaves the verifier the first
\* call installed.
InitializeIdempotent ==
    (/\ Returned("initialize")
     /\ entry.last_init.proof = call.arg
     /\ ProofVerify(call.arg, entry.store.waypoint)
     /\ result.tag # "InternalStorage")
        => /\ result.tag = "Ok"
           /\ writes = <<>>
           /\ store = entry.store
           /\ validator_verifier = entry.last_init.verifier

\* the second initialize returned in an epoch the first one started, after a
\* vote or a timeout moved the rounds
InitializedAgain ==
    /\ Succeeded("initialize")
    /\ entry.last_init.proof = call.arg
    /\ store.epoch = Last(call.arg).next
    /\ store.epoch > InitEpoch
    /\ store.last_voted_round > 0
    /\ store.preferred_round > 0

\* C10: an update with a QC that does not end the epoch writes no record but
\* preferred_round; when it succeeds the persisted preferred_round is the
\* maximum of the prior one and qc.parent_block.round, and when the parent
\* round is not above the prior preferred_round the storage is as it was.
UpdateSetsMaxPreferredRound ==
    (Returned("update") /\ ~EndsEpoch(call.arg)) =>
        /\ \A i \in 1..Len(writes) : writes[i][1] = "preferred_round"
        /\ result.tag = "Ok" =>
              store = [entry.store EXCEPT !.preferred_round =
                          Max(@, call.arg.parent_round)]
        /\ call.arg.parent_round <= entry.store.preferred_round =>
              store = entry.store

PreferredRoundRaised ==
    /\ Succeeded("update")
    /\ ~EndsEpoch(call.arg)
    /\ entry.store.preferred_round > 0
    /\ call.arg.parent_round > entry.store.preferred_round

\* C11: with a verifier installed, an update whose QC is not signed by the
\* verifier's validator set returns InvalidQuorumCertificate, and so does,
\* with "Preferred round too early", one whose parent round is below the
\* persisted preferred_round, unless the read of that round failed; either
\* way the storage and the verifier are as the call found them, also when
\* the QC ends the epoch.
UpdateRejectsInvalidQc ==
    (Returned("update") /\ entry.verifier # NoVerifier) =>
        LET qc == call.arg
            unsigned == ~QcVerify(qc, entry.verifier)
            early == qc.parent_round < entry.store.preferred_round
        IN  (unsigned \/ early) =>
               /\ store = entry.store
               /\ writes = <<>>
               /\ validator_verifier = entry.verifier
               /\ unsigned => result.tag = "InvalidQuorumCertificate"
               /\ (~unsigned /\ result.tag # "InternalStorage") =>
                     result = [tag |-> "InvalidQuorumCertificate",
                               val |-> <<"Preferred round too early">>]

\* a signed QC that ends the epoch into a newer one was rejected for its
\* parent round
EpochEndingQcTooEarly ==
    /\ Returned("update")
    /\ QcVerify(call.arg, entry.verifier)
    /\ EndsEpoch(call.arg)
    /\ call.arg.next > entry.store.epoch
    /\ call.arg.parent_round < entry.store.preferred_round
    /\ result.tag = "InvalidQuorumCertificate"

\* C12: construct_and_sign_vote returns no vote for a block whose certified
\* round is below the persisted preferred_round; such a block, in the stored
\* epoch and above last_voted_round, is rejected with
\* ProposalRoundLowerThenPreferredBlock carrying preferred_round unless a
\* storage read failed, and the storage, last_voted_round included, is as the
\* call found it.
NoVoteBelowPreferredRound ==
    (/\ call.op = "construct_and_sign_vote"
     /\ call.arg.certified_round < entry.store.preferred_round) =>
        /\ pc # "vote_sign"
        /\ writes = <<>>
        /\ store = entry.store
        /\ pc = "returned" =>
              /\ result.tag # "Ok"
              /\ (/\ call.arg.epoch = entry.store.epoch
                  /\ call.arg.round > entry.store.last_voted_round
                  /\ result.tag # "InternalStorage") =>
                    result = [tag |-> "ProposalRoundLowerThenPreferredBlock",
                              val |-> <<entry.store.preferred_round>>]

\* a block of the stored epoch above last_voted_round was rejected for its
\* certified round
ProposalBelowPreferredRejected ==
    /\ Returned("construct_and_sign_vote")
    /\ call.arg.epoch = entry.store.epoch
    /\ call.arg.round > entry.store.last_voted_round
    /\ call.arg.certified_round < entry.store.preferred_round
    /\ result.tag = "ProposalRoundLowerThenPreferredBlock"

\* C13: construct_and_sign_vote and sign_timeout, called with a message whose
\* epoch is not the stored epoch, get past no round check, sign nothing and
\* write nothing, and return IncorrectEpoch(message epoch, stored epoch)
\* unless the read of the epoch failed.
WrongEpochRejectedFirst ==
    (/\ call.op \in {"construct_and_sign_vote", "sign_timeout"}
     /\ call.arg.epoch # entry.store.epoch) =>
        /\ pc \in {"vote_verify_epoch", "timeout_verify_epoch", "returned"}
        /\ writes = <<>>
        /\ store = entry.store
        /\ pc = "returned" =>
              \/ result = [tag |-> "IncorrectEpoch",
                           val |-> <<call.arg.epoch, entry.store.epoch>>]
              \/ result.tag = "InternalStorage"

\* a message of a later epoch whose round the round rules would have
\* rejected as well
WrongEpochBelowRounds ==
    /\ pc = "returned"
    /\ call.op \in {"construct_and_sign_vote", "sign_timeout"}
    /\ call.arg.epoch > entry.store.epoch
    /\ entry.store.last_voted_round > 0
    /\ call.arg.round <= entry.store.last_voted_round
    /\ call.arg.round <= entry.store.preferred_round
    /\ result.tag = "IncorrectEpoch"

\* C14: sign_timeout with a timeout of the stored epoch whose round is at
\* most the persisted preferred_round, or below the persisted
\* last_voted_round, signs nothing and writes nothing; unless a storage read
\* failed it returns BadTimeoutPreferredRound(t.round, preferred_round) in the
\* first case, also when the second applies too, and
\* BadTimeoutLastVotedRound(t.round, last_voted_round) in the second alone.
TimeoutRoundRules ==
    (/\ call.op = "sign_timeout"
     /\ call.arg.epoch = entry.store.epoch) =>
        LET round == call.arg.round
            preferred_round == entry.store.preferred_round
            last_voted_round == entry.store.last_voted_round
        IN  (round <= preferred_round \/ round < last_voted_round) =>
               /\ pc \notin {"timeout_set_last_voted_round", "timeout_sign"}
               /\ writes = <<>>
               /\ store = entry.store
               /\ (pc = "returned" /\ result.tag # "InternalStorage") =>
                     result = IF round <= preferred_round
                              THEN [tag |-> "BadTimeoutPreferredRound",
                                    val |-> <<round, preferred_round>>]
                              ELSE [tag |-> "BadTimeoutLastVotedRound",
                                    val |-> <<round, last_voted_round>>]

\* a timeout that both rules reject was rejected for the preferred round
TimeoutRejectedForPreferredFirst ==
    /\ Returned("sign_timeout")
    /\ call.arg.epoch = entry.store.epoch
    /\ entry.store.preferred_round > 0
    /\ call.arg.round = entry.store.preferred_round
    /\ call.arg.round < entry.store.last_voted_round
    /\ result.tag = "BadTimeoutPreferredRound"

\* C15: a sign_timeout with the (epoch, round) of the timeout signed most
\* recently, called with the storage as that call left it, succeeds unless
\* a storage read fails, returns the signature the first call returned and
\* writes nothing.
RepeatedTimeoutSignedAgain ==
    (/\ Returned("sign_timeout")
     /\ entry.last_timeout # NoTimeout
     /\ entry.last_timeout.timeout = call.arg
     /\ entry.last_timeout.store = entry.store
     /\ result.tag # "InternalStorage")
        => /\ result = [tag |-> "Ok", val |-> entry.last_timeout.signature]
           /\ writes = <<>>
           /\ store = entry.store

\* the second of two equal timeouts was signed, at a round the first one
\* had raised last_voted_round to
TimeoutSignedTwice ==
    /\ Succeeded("sign_timeout")
    /\ entry.last_timeout # NoTimeout
    /\ entry.last_timeout.timeout = call.arg
    /\ entry.last_timeout.store = entry.store
    /\ call.arg.round = MaxRound
    /\ entry.store.preferred_round > 0

\* C16: as long as no initialize has returned success the verifier is
\* absent between operations, and an update returns NotInitialized and
\* leaves the storage as it found it, also after an initialize that returned
\* an error.
AbsentUntilInitializeSucceeds ==
    /\ (pc = "idle" /\ last_init = NoInit) => validator_verifier = NoVerifier
    /\ (Returned("update") /\ entry.last_init = NoInit) =>
          /\ result.tag = "NotInitialized"
          /\ writes = <<>>
          /\ store = entry.store

\* C17: once initialize or an epoch-ending update has returned, whatever it
\* returned, a verifier that is installed is the validator set of the stored
\* epoch.
VerifierOfStoredEpoch ==
    (pc = "returned" /\ StartsEpoch /\ validator_verifier # NoVerifier) =>
        validator_verifier = store.epoch

\* C18: in every state the epoch of the persisted waypoint is at most the
\* persisted epoch.
WaypointEpochBounded == store.waypoint.epoch <= store.epoch

\* C19: an update with a QC whose blocks are of an epoch other than the
\* stored one writes nothing: it neither changes preferred_round nor starts
\* an epoch transition.
UpdateOnlyInCurrentEpoch ==
    (call.op = "update" /\ call.arg.epoch # entry.store.epoch) =>
        /\ writes = <<>>
        /\ store = entry.store
        /\ pc \notin {"start_new_epoch", "set_preferred_round"}
        /\ pc = "returned" => result.tag # "Ok"

\* C20: construct_ledger_info returns a ledger info for every block: one that
\* commits the parent block when parent round + 1 = certified round and
\* certified round + 1 = proposed round, and the one over the empty
\* BlockInfo in every other case.
CommitsByThreeChainRule ==
    Returned("construct_ledger_info") =>
        result = [tag |-> "Ok",
                  val |-> <<IF /\ call.arg.parent_round + 1 = call.arg.certified_round
                               /\ call.arg.certified_round + 1 = call.arg.round
                            THEN call.arg.parent_round
                            ELSE -1>>]
====
